---- MODULE Spec2Model ----
(***************************************************************************)
(* Model of apps/loci/models.py: the Place model, its save() override and  *)
(* the proximity queries PlaceQuerySet.near / near_distances.              *)
(*                                                                         *)
(* Encoding of Python values:                                              *)
(*   - an optional float (a nullable FloatField, an optional argument) is  *)
(*     the empty set for Python None and {v} for the number v;            *)
(*   - coordinates are whole degrees; a delta of the bounding box is in    *)
(*     thousandths of a degree; a distance is in thousandths of a mile;    *)
(*     a formatted "%.2f" distance is in hundredths of a mile;             *)
(*   - CharField values are strings;                                       *)
(*   - the table of Place rows is a function from primary key to row.      *)
(***************************************************************************)
EXTENDS Integers, Sequences, FiniteSets, TLC

VARIABLES
    store,               \* the Place table: primary key -> row
    before,              \* the table as it was when the last call started
    call,                \* the last call: operation and arguments
    raised,              \* exception the last call raised ("" when it returned)
    locations,           \* list returned by the last near()
    queryset,            \* rows the range filter of the last near() selected
    location_distances,  \* dict returned by the last near_distances()
    geocode_calls,       \* addresses the last call passed to geocode()
    db_saves,            \* number of Model.save() calls made by the last call
    db_queries,          \* number of queries the last call ran on the table
    saves_made           \* number of save() calls made so far

vars ==
    << store, before, call, raised, locations, queryset, location_distances,
       geocode_calls, db_saves, db_queries, saves_made >>

----------------------------------------------------------------------------
(* Bounds of the model.                                                    *)

\* Number of primary keys (rows the table can hold).
MaxPlaces == 2

\* Number of calls made in one behaviour of the save() specification.
MaxSaves == 1

----------------------------------------------------------------------------
(* Python values.                                                          *)

None == {}

Some(v) == {v}

Val(x) == CHOOSE v \in x : TRUE

\* bool(x) of an optional float: None and 0.0 are both false.
Truth(x) == x # None /\ x # Some(0)

\* all(pair) / (a and b) of a coordinate pair.
all_location(point) == Truth(point[1]) /\ Truth(point[2])

Abs(n) == IF n < 0 THEN -n ELSE n

Range(s) == { s[i] : i \in 1..Len(s) }

----------------------------------------------------------------------------
(* geopy: unit conversion and distance.                                    *)

\* 10^4 * cos(k degrees), k = 0..90, at index k + 1.
CosT ==
    <<
       10000, 9998, 9994, 9986, 9976, 9962, 9945, 9925, 9903, 9877, 9848, 9816, 9781,
       9744, 9703, 9659, 9613, 9563, 9511, 9455, 9397, 9336, 9272, 9205, 9135, 9063,
       8988, 8910, 8829, 8746, 8660, 8572, 8480, 8387, 8290, 8192, 8090, 7986, 7880,
       7771, 7660, 7547, 7431, 7314, 7193, 7071, 6947, 6820, 6691, 6561, 6428, 6293,
       6157, 6018, 5878, 5736, 5592, 5446, 5299, 5150, 5000, 4848, 4695, 4540, 4384,
       4226, 4067, 3907, 3746, 3584, 3420, 3256, 3090, 2924, 2756, 2588, 2419, 2250,
       2079, 1908, 1736, 1564, 1392, 1219, 1045, 872, 698, 523, 349, 175, 0
    >>

\* 10^5 * haversine(k degrees) = 10^5 * (1 - cos k) / 2, k = 0..180, at index k + 1.
HavT ==
    <<
       0, 8, 30, 69, 122, 190, 274, 373, 487, 616, 760, 919, 1093,
       1281, 1485, 1704, 1937, 2185, 2447, 2724, 3015, 3321, 3641, 3975, 4323, 4685,
       5060, 5450, 5853, 6269, 6699, 7142, 7598, 8066, 8548, 9042, 9549, 10068, 10599,
       11143, 11698, 12265, 12843, 13432, 14033, 14645, 15267, 15900, 16543, 17197, 17861, 18534,
       19217, 19909, 20611, 21321, 22040, 22768, 23504, 24248, 25000, 25760, 26526, 27300, 28081,
       28869, 29663, 30463, 31270, 32082, 32899, 33722, 34549, 35381, 36218, 37059, 37904, 38752,
       39604, 40460, 41318, 42178, 43041, 43907, 44774, 45642, 46512, 47383, 48255, 49127, 50000,
       50873, 51745, 52617, 53488, 54358, 55226, 56093, 56959, 57822, 58682, 59540, 60396, 61248,
       62096, 62941, 63782, 64619, 65451, 66278, 67101, 67918, 68730, 69537, 70337, 71131, 71919,
       72700, 73474, 74240, 75000, 75752, 76496, 77232, 77960, 78679, 79389, 80091, 80783, 81466,
       82139, 82803, 83457, 84100, 84733, 85355, 85967, 86568, 87157, 87735, 88302, 88857, 89401,
       89932, 90451, 90958, 91452, 91934, 92402, 92858, 93301, 93731, 94147, 94550, 94940, 95315,
       95677, 96025, 96359, 96679, 96985, 97276, 97553, 97815, 98063, 98296, 98515, 98719, 98907,
       99081, 99240, 99384, 99513, 99627, 99726, 99810, 99878, 99931, 99970, 99992, 100000
    >>

Cos(deg) == CosT[Abs(deg) + 1]

Hav(deg) == HavT[Abs(deg) + 1]

\* degrees(arcminutes=nautical(miles=distance)), in thousandths of a degree:
\* miles * 1.609344 / 1.852 / 60 = miles * 0.0144829 degrees.
degrees_of_miles(miles) == (miles * 144829) \div 10000

\* Difference of two longitudes folded into 0..180 degrees.
LonDiff(a, b) ==
    LET d == Abs(a - b) % 360
    IN  IF d > 180 THEN 360 - d ELSE d

\* The least angle a of low..high with h below the middle of the haversines
\* of a and a + 1 degrees (high when there is none), by bisection.
RECURSIVE NearestAngle(_, _, _)
NearestAngle(h, low, high) ==
    IF low = high THEN low
    ELSE LET mid == (low + high) \div 2
         IN  IF 2 * h < HavT[mid + 1] + HavT[mid + 2]
             THEN NearestAngle(h, low, mid)
             ELSE NearestAngle(h, mid + 1, high)

\* The central angle, to the nearest whole degree, whose haversine is h.
CentralAngle(h) == NearestAngle(h, 0, 180)

\* geopy.distance.distance(p, q).miles in thousandths of a mile: the
\* great-circle distance (haversine formula) on the sphere of geopy's mean
\* earth radius, on which one degree of arc is 69.093 miles.  p and q are
\* pairs of whole degrees.
distance(p, q) ==
    LET h == Hav(p[1] - q[1])
             + ((((Cos(p[1]) * Cos(q[1])) \div 10000) * Hav(LonDiff(p[2], q[2])))
                \div 10000)
    IN  CentralAngle(h) * 69093

\* "{0:.2f}".format(round(miles, 2)): thousandths of a mile rounded to
\* hundredths, a tie going to the even neighbour.
format_miles(m) ==
    LET q == m \div 10
        r == m % 10
    IN  IF r > 5 \/ (r = 5 /\ q % 2 = 1) THEN q + 1 ELSE q

----------------------------------------------------------------------------
(* Place: fields and properties.                                           *)

\* Place.location (getter): the pair (latitude, longitude).
location_of(place) == << place.latitude, place.longitude >>

\* ' '.join(parts)
RECURSIVE join(_)
join(parts) ==
    IF parts = << >> THEN ""
    ELSE IF Len(parts) = 1 THEN parts[1]
    ELSE parts[1] \o " " \o join(Tail(parts))

\* Place.full_address
full_address(self) ==
    join(  (IF self.address # "" THEN << self.address \o "," >> ELSE << >>)
        \o (IF self.city # "" THEN << self.city >> ELSE << >>)
        \o (IF self.state # "" THEN << self.state >> ELSE << >>)
        \o (IF self.zip_code # "" THEN << self.zip_code >> ELSE << >>))

----------------------------------------------------------------------------
(* PlaceQuerySet.near                                                      *)
(*                                                                         *)
(* The location argument is a record: is_place tells a Place instance from *)
(* a (lat, lon) tuple, location is the pair either of them yields, and     *)
(* nearby_distance is the empty set when the object has no such attribute  *)
(* (a tuple never has one) and {d} when d was attached to it.              *)

\* The primary keys of S in the order the table yields its rows.
RECURSIVE ordered(_, _)
ordered(S, k) ==
    IF k > MaxPlaces THEN << >>
    ELSE (IF k \in S THEN << k >> ELSE << >>) \o ordered(S, k + 1)

\* The mutant of valid_location used for C3: the coordinates are compared
\* with None instead of being tested for truth.
valid_location_not_none(latitude, longitude) ==
    latitude # None /\ longitude # None

\* "if not (latitude and longitude): return []" is taken when this is false.
valid_location(latitude, longitude) == Truth(latitude) /\ Truth(longitude)

\* latitude__range / longitude__range: an inclusive BETWEEN, in thousandths
\* of a degree; a NULL column matches no range.
in_range(column, low, high) ==
    column # None /\ low <= Val(column) * 1000 /\ Val(column) * 1000 <= high

\* self.filter(latitude__range=lat_range, longitude__range=long_range)
bounding_box(table, latitude, longitude, miles) ==
    LET deg_lat == degrees_of_miles(miles)
        lat_low == latitude * 1000 - deg_lat
        lat_high == latitude * 1000 + deg_lat
        long_low == longitude * 1000 - deg_lat * 2
        long_high == longitude * 1000 + deg_lat * 2
    IN  ordered({ pk \in DOMAIN table :
                    /\ in_range(table[pk].latitude, lat_low, lat_high)
                    /\ in_range(table[pk].longitude, long_low, long_high) }, 1)

\* The test of the loop body of near: the row is appended when this holds.
is_near(row, latitude, longitude, miles) ==
    /\ Truth(row.latitude) /\ Truth(row.longitude)
    /\ distance(<< latitude, longitude >>,
                << Val(row.latitude), Val(row.longitude) >>) <= miles * 1000

\* The body of near once the centre and the distance are known.
near_search(table, latitude, longitude, miles) ==
    LET candidates == bounding_box(table, latitude, longitude, miles)
    IN  [ raised |-> "",
          queryset |-> candidates,
          locations |-> SelectSeq(candidates,
                            LAMBDA pk : is_near(table[pk], latitude, longitude, miles)),
          db_queries |-> 1 ]

near_returns(raise, list) ==
    [ raised |-> raise, queryset |-> << >>, locations |-> list, db_queries |-> 0 ]

\* The mutant of near used for C4: the distance is resolved before the
\* centre is validated.
near_distance_first(table, location, dist) ==
    IF dist = None /\ location.nearby_distance = None
    THEN near_returns("ValueError", << >>)
    ELSE IF ~valid_location(location.location[1], location.location[2])
    THEN near_returns("", << >>)
    ELSE near_search(table, Val(location.location[1]), Val(location.location[2]),
                     IF dist = None THEN Val(location.nearby_distance) ELSE Val(dist))

\* PlaceQuerySet.near(self, location, distance=None)
near(table, location, dist) ==
    LET latitude == location.location[1]
        longitude == location.location[2]
    IN  IF ~valid_location(latitude, longitude)
        THEN near_returns("", << >>)
        ELSE IF dist = None /\ location.nearby_distance = None
        THEN near_returns("ValueError", << >>)
        ELSE near_search(table, Val(latitude), Val(longitude),
                         IF dist = None THEN Val(location.nearby_distance)
                         ELSE Val(dist))

----------------------------------------------------------------------------
(* PlaceQuerySet.near_distances                                            *)

\* The mutant of loop_distance used for C5: the distance computed for an
\* earlier row of the loop is kept.
loop_distance_stale(row, latitude, longitude, exact_distance) ==
    IF exact_distance = None
    THEN Some(distance(<< Val(row.latitude), Val(row.longitude) >>,
                       << Val(latitude), Val(longitude) >>))
    ELSE exact_distance

\* The value of the local exact_distance after the "if l.latitude and
\* l.longitude" statement of the loop body; the empty set while the local
\* is unbound.
loop_distance(row, latitude, longitude, exact_distance) ==
    IF Truth(row.latitude) /\ Truth(row.longitude)
    THEN Some(distance(<< Val(row.latitude), Val(row.longitude) >>,
                       << Val(latitude), Val(longitude) >>))
    ELSE exact_distance

\* The loop over near_locations; acc is location_distances so far.
RECURSIVE near_distances_loop(_, _, _, _, _, _)
near_distances_loop(table, near_locations, latitude, longitude, exact_distance, acc) ==
    IF near_locations = << >>
    THEN [ raised |-> "", location_distances |-> acc ]
    ELSE LET l == Head(near_locations)
             d == loop_distance(table[l], latitude, longitude, exact_distance)
         IN  IF d = None
             THEN [ raised |-> "UnboundLocalError", location_distances |-> << >> ]
             ELSE near_distances_loop(table, Tail(near_locations), latitude,
                      longitude, d,
                      [ k \in DOMAIN acc \cup {l} |->
                            IF k = l THEN format_miles(Val(d)) ELSE acc[k] ])

\* PlaceQuerySet.near_distances(self, location, distance)
near_distances(table, location, dist) ==
    LET n == near(table, location, dist)
    IN  IF n.raised # ""
        THEN [ raised |-> n.raised, location_distances |-> << >>,
               db_queries |-> n.db_queries ]
        ELSE LET r == near_distances_loop(table, n.locations, location.location[1],
                          location.location[2], None, << >>)
             IN  [ raised |-> r.raised, location_distances |-> r.location_distances,
                   db_queries |-> n.db_queries ]

----------------------------------------------------------------------------
(* loci.utils.geocode and Place.save                                       *)
(*                                                                         *)
(* An outcome of geocode(address) is a record: raises tells whether the    *)
(* call raised; otherwise location, city, state and zip_code are the       *)
(* attributes of the object it returned.                                   *)

geocode_raised ==
    [ raises |-> TRUE, location |-> << None, None >>,
      city |-> "", state |-> "", zip_code |-> "" ]

geocode_found(point, city, state, zip_code) ==
    [ raises |-> FALSE, location |-> point,
      city |-> city, state |-> state, zip_code |-> zip_code ]

\* What geocode can do with an address: raise, resolve nothing, or resolve
\* the address.
GeocodeOutcomes ==
    { geocode_raised,
      geocode_found(<< None, None >>, "", "", ""),
      geocode_found(<< Some(41), Some(11) >>, "Gc", "GS", "Gz") }

\* The two early returns of save: city, state and zip_code are all empty, or
\* all the single-space default.
saves_as_is(self) ==
    \/ self.city = "" /\ self.state = "" /\ self.zip_code = ""
    \/ self.city = " " /\ self.state = " " /\ self.zip_code = " "

\* "if not all(self.location)": save calls geocode.
needs_geocode(self) == ~all_location(location_of(self))

\* The mutant of geocode_propagates used for C9: the exception of geocode is
\* caught and save goes on.
geocode_swallowed(self, g) == FALSE

\* geocode is called and raises: nothing catches the exception.
geocode_propagates(self, g) == needs_geocode(self) /\ g.raises

\* "if all(geoloc.location): (self.latitude, self.longitude) = geoloc.location"
with_location(self, g) ==
    IF needs_geocode(self) /\ all_location(g.location)
    THEN [ self EXCEPT !.latitude = g.location[1], !.longitude = g.location[2] ]
    ELSE self

\* The three back-fills read the local geoloc, which is bound only when
\* geocode was called.
reads_unbound_geoloc(self) ==
    /\ ~needs_geocode(self)
    /\ self.city = "" \/ self.state = "" \/ self.zip_code = ""

\* "if not self.city: self.city = geoloc.city", and the same for state and
\* zip_code.
with_fields(self, g) ==
    [ self EXCEPT !.city = IF self.city = "" THEN g.city ELSE self.city,
                  !.state = IF self.state = "" THEN g.state ELSE self.state,
                  !.zip_code = IF self.zip_code = "" THEN g.zip_code
                               ELSE self.zip_code ]

save_result(raise, row, writes, addresses) ==
    [ raised |-> raise, row |-> row, db_saves |-> writes,
      geocode_calls |-> addresses ]

\* Place.save(self) with g the outcome of geocode, should save call it: the
\* exception raised, the row written, the number of Model.save() calls and
\* the addresses passed to geocode.
save(self, g) ==
    IF saves_as_is(self)
    THEN save_result("", self, 1, << >>)
    ELSE LET addresses == IF needs_geocode(self) THEN << full_address(self) >>
                          ELSE << >>
         IN  IF geocode_propagates(self, g)
             THEN save_result("GeocodeError", self, 0, addresses)
             ELSE IF reads_unbound_geoloc(self)
             THEN save_result("UnboundLocalError", self, 0, addresses)
             ELSE save_result("", with_fields(with_location(self, g), g), 1,
                              addresses)

----------------------------------------------------------------------------
(* Inputs.                                                                 *)

Pks == 1..MaxPlaces

\* Coordinate pairs of rows: unset, on the equator (latitude 0.0), and three
\* points at high latitude.
Points ==
    { << None, None >>, << Some(0), Some(10) >>, << Some(70), Some(10) >>,
      << Some(75), Some(10) >>, << Some(75), Some(40) >> }

\* Coordinate pairs of centres: those, and a pair that is half set.
CentrePoints == Points \cup { << Some(75), None >> }

\* Radii in miles, passed or attached.
Radii == { 0, 560 }

Texts(value) == { "", " ", value }

place(address, city, state, zip_code, latitude, longitude) ==
    [ name |-> "n", address |-> address, city |-> city, state |-> state,
      zip_code |-> zip_code, latitude |-> latitude, longitude |-> longitude ]

\* Places created with the field defaults and coordinates: save writes them
\* as they are.
LocatedPlaces ==
    { place(" ", " ", " ", " ", p[1], p[2]) : p \in Points }

\* Places as save can receive them.
SavedPlaces ==
    { place(a, c, s, z, p[1], p[2]) :
        a \in { "", "1 Main St" }, c \in Texts("Ct"), s \in Texts("NY"),
        z \in Texts("10001"),
        p \in { << None, None >>, << Some(0), Some(10) >>,
                << Some(75), Some(10) >> } }

\* The centres near can receive: (lat, lon) tuples, Place instances, and
\* Place instances with nearby_distance attached.
Centres ==
    { [ is_place |-> FALSE, location |-> p, nearby_distance |-> None ] :
        p \in CentrePoints }
    \cup
    { [ is_place |-> TRUE, location |-> p, nearby_distance |-> nd ] :
        p \in CentrePoints, nd \in { None, Some(560) } }

Distances == { None } \cup { Some(r) : r \in Radii }

\* Every table of the rows in S.
Tables(S) == UNION { [ D -> S ] : D \in SUBSET Pks }

no_place == place(" ", " ", " ", " ", None, None)

no_centre == [ is_place |-> FALSE, location |-> << None, None >>,
               nearby_distance |-> None ]

----------------------------------------------------------------------------
(* The calls.                                                              *)

TypeOK ==
    /\ DOMAIN store \subseteq Pks
    /\ DOMAIN before \subseteq Pks
    /\ raised \in { "", "ValueError", "UnboundLocalError", "GeocodeError" }
    /\ db_saves \in 0..1
    /\ db_queries \in 0..1
    /\ saves_made \in 0..MaxSaves

InitWith(tables) ==
    /\ store \in tables
    /\ before = store
    /\ call = [ op |-> "init", pk |-> 0, self |-> no_place, geo |-> geocode_raised,
                location |-> no_centre, distance |-> None ]
    /\ raised = ""
    /\ locations = << >>
    /\ queryset = << >>
    /\ location_distances = << >>
    /\ geocode_calls = << >>
    /\ db_saves = 0
    /\ db_queries = 0
    /\ saves_made = 0

\* place.save() on the instance self with primary key pk; g is the outcome
\* of geocode when save calls it.
CallSave(pk, self, g) ==
    \E r \in { save(self, g) } :
        /\ saves_made' = saves_made + 1
        /\ before' = store
        /\ store' = IF r.db_saves = 1
                    THEN [ k \in DOMAIN store \cup {pk} |->
                             IF k = pk THEN r.row ELSE store[k] ]
                    ELSE store
        /\ call' = [ op |-> "save", pk |-> pk, self |-> self, geo |-> g,
                     location |-> no_centre, distance |-> None ]
        /\ raised' = r.raised
        /\ geocode_calls' = r.geocode_calls
        /\ db_saves' = r.db_saves
        /\ db_queries' = 0
        /\ locations' = << >>
        /\ queryset' = << >>
        /\ location_distances' = << >>

\* The outcomes geocode can have in save(self): it has one only when save
\* calls it.
OutcomesFor(self) ==
    IF ~saves_as_is(self) /\ needs_geocode(self) THEN GeocodeOutcomes
    ELSE { geocode_raised }

\* One save(), while the behaviour has calls left.
SavePlace ==
    /\ saves_made < MaxSaves
    /\ \E pk \in Pks, self \in SavedPlaces :
           \E g \in OutcomesFor(self) : CallSave(pk, self, g)

\* Place.objects.near(location, distance)
CallNear(location, dist) ==
    \E r \in { near(store, location, dist) } :
        /\ before' = store
        /\ call' = [ op |-> "near", pk |-> 0, self |-> no_place,
                     geo |-> geocode_raised, location |-> location,
                     distance |-> dist ]
        /\ raised' = r.raised
        /\ locations' = r.locations
        /\ queryset' = r.queryset
        /\ db_queries' = r.db_queries
        /\ location_distances' = << >>
        /\ geocode_calls' = << >>
        /\ db_saves' = 0
        /\ UNCHANGED << store, saves_made >>

\* Place.objects.near_distances(location, distance)
CallNearDistances(location, dist) ==
    \E r \in { near_distances(store, location, dist) } :
        /\ before' = store
        /\ call' = [ op |-> "near_distances", pk |-> 0, self |-> no_place,
                     geo |-> geocode_raised, location |-> location,
                     distance |-> dist ]
        /\ raised' = r.raised
        /\ location_distances' = r.location_distances
        /\ db_queries' = r.db_queries
        /\ locations' = << >>
        /\ queryset' = << >>
        /\ geocode_calls' = << >>
        /\ db_saves' = 0
        /\ UNCHANGED << store, saves_made >>

Near == \E location \in Centres, dist \in Distances : CallNear(location, dist)

NearDistances ==
    \E location \in Centres, dist \in Distances : CallNearDistances(location, dist)

\* The read path over every table of located places.
InitNear == InitWith(Tables(LocatedPlaces))

NextNear == Near \/ NearDistances

SpecNear == InitNear /\ [][NextNear]_vars

\* The write path, from a table that holds one located place.
InitSave ==
    InitWith({ [ pk \in {1} |-> place(" ", " ", " ", " ", Some(75), Some(10)) ] })

NextSave == SavePlace

SpecSave == InitSave /\ [][NextSave]_vars

\* The whole program: writes and reads in any order.
Init == InitSave

Next == SavePlace \/ Near \/ NearDistances

Spec == Init /\ [][Next]_vars

----------------------------------------------------------------------------
(* Properties of near and near_distances, checked under SpecNear.          *)

\* The centre and the radius of the last call.
CentreLat == call.location.location[1]

CentreLon == call.location.location[2]

CentreIsSet == CentreLat # None /\ CentreLon # None

NoRadius == call.distance = None /\ call.location.nearby_distance = None

Radius ==
    IF call.distance # None THEN Val(call.distance)
    ELSE Val(call.location.nearby_distance)

\* The rows with both coordinates set whose distance to the centre of the
\* last call is at most miles.
RowsWithin(miles) ==
    { pk \in DOMAIN store :
        /\ store[pk].latitude # None
        /\ store[pk].longitude # None
        /\ distance(<< Val(CentreLat), Val(CentreLon) >>,
                    << Val(store[pk].latitude), Val(store[pk].longitude) >>)
             <= miles * 1000 }

\* C1 (as claimed): near(C, r) with r >= 0 passed and both coordinates of C
\* set returns exactly the rows that have both coordinates set and lie within
\* r miles of C, a coordinate of 0 included.
C1_NearReturnsExactlyTheRowsWithin ==
    (call.op = "near" /\ call.distance # None /\ CentreIsSet)
        => /\ raised = ""
           /\ Range(locations) = RowsWithin(Val(call.distance))

\* C2 (as claimed): whenever near runs its range filter, the rows the filter
\* selects include every row whose distance to the centre is at most the
\* radius.
C2_BoundingBoxKeepsEveryRowWithin ==
    (call.op = "near" /\ db_queries = 1)
        => RowsWithin(Radius) \subseteq Range(queryset)

\* C3 (as claimed): near(C, None) with no nearby_distance attached to C
\* raises ValueError for every centre C.
C3_NoRadiusAlwaysRaises ==
    (call.op = "near" /\ NoRadius) => raised = "ValueError"

\* C3 (amended): near(C, None) with no nearby_distance attached to C raises
\* ValueError exactly when both coordinates of C are set and are not 0;
\* for every other centre it returns the empty list and raises nothing.
C3_NoRadiusRaisesForTruthyCentre ==
    (call.op = "near" /\ NoRadius)
        => IF Truth(CentreLat) /\ Truth(CentreLon)
           THEN raised = "ValueError"
           ELSE raised = "" /\ locations = << >>

C3_Witness ==
    /\ call.op = "near" /\ NoRadius
    /\ Truth(CentreLat) /\ Truth(CentreLon)
    /\ raised = "ValueError"
    /\ store # << >>

\* C4: near(C, r) with a coordinate of C unset returns the empty list, raises
\* nothing and runs no query, whether r is passed, attached or absent.
C4_UnsetCentreReturnsEmpty ==
    (call.op = "near" /\ ~CentreIsSet)
        => raised = "" /\ locations = << >> /\ db_queries = 0

C4_Witness ==
    /\ call.op = "near" /\ ~CentreIsSet /\ NoRadius
    /\ raised = "" /\ locations = << >> /\ db_queries = 0
    /\ \E pk \in DOMAIN store : all_location(location_of(store[pk]))

\* C5: when near(C, r) returns, near_distances(C, r) returns a dict whose keys
\* are exactly the rows near(C, r) returns, and the value of each row is the
\* distance between C and that very row, to the nearest hundredth of a mile.
C5_NearDistancesMapsEachRowToItsDistance ==
    (call.op = "near_distances" /\ near(store, call.location, call.distance).raised = "")
        => /\ raised = ""
           /\ DOMAIN location_distances
                = Range(near(store, call.location, call.distance).locations)
           /\ \A pk \in DOMAIN location_distances :
                LET miles == distance(<< Val(CentreLat), Val(CentreLon) >>,
                                 << Val(store[pk].latitude), Val(store[pk].longitude) >>)
                IN  /\ 10 * location_distances[pk] - 5 <= miles
                    /\ miles <= 10 * location_distances[pk] + 5

C5_Witness ==
    /\ call.op = "near_distances" /\ raised = ""
    /\ \E pk1, pk2 \in DOMAIN location_distances :
         location_distances[pk1] < location_distances[pk2]

----------------------------------------------------------------------------
(* Properties of save, checked under SpecSave.                             *)

Unset(text) == text \in { "", " " }

BothSet(p) == p.latitude # None /\ p.longitude # None

BothUnset(p) == p.latitude = None /\ p.longitude = None

\* The last call wrote call.self as it was and touched no other row.
WroteUnchanged ==
    /\ raised = "" /\ db_saves = 1
    /\ store = [ k \in DOMAIN before \cup {call.pk} |->
                   IF k = call.pk THEN call.self ELSE before[k] ]

\* C6 (as claimed): save of a place with an address, with city, state and
\* zip_code unset and with no coordinates calls geocode once with
\* full_address and, when geocode resolves the address, writes the place with
\* latitude, longitude, city, state and zip_code of the result.
C6_SaveResolvesAnAddressOnlyPlace ==
    (/\ call.op = "save"
     /\ ~Unset(call.self.address)
     /\ Unset(call.self.city) /\ Unset(call.self.state) /\ Unset(call.self.zip_code)
     /\ BothUnset(call.self))
        => /\ geocode_calls = << full_address(call.self) >>
           /\ (~call.geo.raises /\ all_location(call.geo.location))
                => /\ raised = "" /\ db_saves = 1
                   /\ call.pk \in DOMAIN store
                   /\ store[call.pk] =
                        [ call.self EXCEPT !.latitude = call.geo.location[1],
                                           !.longitude = call.geo.location[2],
                                           !.city = call.geo.city,
                                           !.state = call.geo.state,
                                           !.zip_code = call.geo.zip_code ]

\* C7 (as claimed): save of a place with both coordinates set and city unset
\* calls geocode not at all, raises nothing and writes the place as it was.
C7_SaveOfALocatedPlaceKeepsCityUnset ==
    (call.op = "save" /\ BothSet(call.self) /\ Unset(call.self.city))
        => geocode_calls = << >> /\ WroteUnchanged

\* C8 (as claimed): save of a place whose city, state and zip_code are each
\* unset (empty or a single space) calls geocode not at all and writes the
\* place once, as it was.
C8_SaveWithoutAddressFieldsIsANoOp ==
    (/\ call.op = "save"
     /\ Unset(call.self.city) /\ Unset(call.self.state) /\ Unset(call.self.zip_code))
        => geocode_calls = << >> /\ WroteUnchanged

\* C8, the part the code keeps: when the three fields are all empty or all a
\* single space, save calls geocode not at all and writes the place as it was.
C8_SameRepresentationIsANoOp ==
    (call.op = "save" /\ saves_as_is(call.self))
        => geocode_calls = << >> /\ WroteUnchanged

\* C9: when the geocode call of save raises, save raises that error, writes
\* nothing and leaves the table as it was.
C9_GeocodeErrorBlocksTheWrite ==
    (call.op = "save" /\ geocode_calls # << >> /\ call.geo.raises)
        => raised = "GeocodeError" /\ db_saves = 0 /\ store = before

C9_Witness ==
    /\ call.op = "save" /\ geocode_calls # << >> /\ call.geo.raises
    /\ raised = "GeocodeError"
    /\ call.pk \in DOMAIN store /\ store = before

\* C10 (as claimed): a place that enters save with latitude and longitude
\* both set or both unset is written with both set or both unset, and a pair
\* that was set is written as it was.
C10_CoordinatePairIsKept ==
    (/\ call.op = "save" /\ db_saves = 1
     /\ BothSet(call.self) \/ BothUnset(call.self))
        => /\ BothSet(store[call.pk]) \/ BothUnset(store[call.pk])
           /\ BothSet(call.self)
                => /\ store[call.pk].latitude = call.self.latitude
                   /\ store[call.pk].longitude = call.self.longitude

====
